---- MODULE Spec2Model ----
(***************************************************************************)
(* Model of the panoptic_mapping core: the sub-map collection              *)
(* (submap_collection.cpp), the class-voxel codec, the block               *)
(* (de)serialization and the voxel fusion rule (tools/serialization.cpp).  *)
(***************************************************************************)
EXTENDS Integers, Sequences, FiniteSets, TLC

VARIABLES
  \* ---- SubmapCollection ----
  submaps_,      \* std::vector<std::unique_ptr<Submap>>, as a sequence of sub-maps
  id_to_index_,  \* id -> position (0-based, as in the code)
  id_counter,    \* next identifier the Submap constructor hands out
  pending,       \* sub-maps constructed by a caller and not yet handed to addSubmap
  created,       \* history: id -> the sub-map constructed under that id
  removed,       \* history: ids whose sub-map was removed (removeSubmap, clear)
  pre,           \* history: <<id_to_index_, submaps_>> before the last operation
  lastOp,        \* the last operation, with its argument
  lastRet,       \* what the last operation returned
  crashed        \* the process ended abnormally

collVars == <<submaps_, id_to_index_, id_counter, pending, created, removed,
              pre, lastOp, lastRet, crashed>>

VARIABLES
  \* ---- voxel codec and block (de)serialization ----
  variant,       \* "class" (ClassVoxel) or "uncertainty" (ClassUncertaintyVoxel)
  build,         \* what the build makes of a value-returning function that
                 \* flows off its end (undefined behaviour)
  ub,            \* what top()/pop() of an empty priority_queue yield (undefined)
  voxel,         \* the voxel handed to convertVoxelToInt32
  num_voxels_,   \* Block::num_voxels_
  voxels_,       \* Block::voxels_ of the block that is serialized
  data,          \* the std::vector<uint32_t> of words
  enc,           \* outcome of the encoding call
  dec,           \* outcome of the decoding call
  loaded,        \* Block::voxels_ of the block that is deserialized into
  pc             \* position of the codec / block scenario

codecVars == <<variant, build, ub, voxel, num_voxels_, voxels_, data, enc, dec,
               loaded, pc>>

VARIABLES
  \* ---- voxel fusion ----
  voxel_B,       \* the target voxel of mergeVoxelAIntoVoxelB
  voxel_A,       \* history: the incoming voxel of the last merge
  B_before,      \* history: voxel_B before the last merge
  gt_seen,       \* history: voxel_B.is_gt was true at some point
  merges,        \* number of merges so far
  no_votes       \* what the belonging probability of a voxel without votes
                 \* (0 / 0) is: "zero" or "nan"

fusionVars == <<voxel_B, voxel_A, B_before, gt_seen, merges, no_votes>>

vars == <<collVars, codecVars, fusionVars>>

-----------------------------------------------------------------------------
(* Bounds *)
MaxSubmaps == 4          \* how many sub-maps are ever constructed

(* Inputs of createSubmap(voxel_size, voxels_per_side) *)
VoxelSizes == {1, 2}
VoxelsPerSide == {16}

Ids == 0 .. (MaxSubmaps + 1)     \* ids a caller may ask about (some never issued)

Garbage == [id |-> -1, voxel_size |-> 0, voxels_per_side |-> 0]
NoRet == [kind |-> "none", submap |-> Garbage]

-----------------------------------------------------------------------------
(* Submap construction: a fresh identifier per constructed instance. *)
NewSubmap(id, voxel_size, voxels_per_side) ==
  [id |-> id, voxel_size |-> voxel_size, voxels_per_side |-> voxels_per_side]

(* std::map::operator[] used as an lvalue: insert or overwrite. *)
MapPut(m, k, v) == [j \in (DOMAIN m) \cup {k} |-> IF j = k THEN v ELSE m[j]]

(* std::map::erase *)
MapErase(m, k) == [j \in (DOMAIN m) \ {k} |-> m[j]]

(* std::vector::erase(begin() + idx), idx 0-based *)
VectorEraseLast(v, idx) == SubSeq(v, 1, Len(v) - 1)
VectorErase(v, idx) ==
  SubSeq(v, 1, idx) \o SubSeq(v, idx + 2, Len(v))

(* std::vector::operator[] with a 0-based index *)
VectorAt(v, idx) == v[idx + 1]

(* the "correct the index table" loop of removeSubmap *)
CorrectIndexTableNoShift(m, previous_index) == m
CorrectIndexTable(m, previous_index) ==
  [j \in DOMAIN m |-> IF m[j] > previous_index THEN m[j] - 1 ELSE m[j]]

(* removeSubmap's effect on the table and on the storage, for a known id *)
RemoveFromTable(m, id) == CorrectIndexTable(MapErase(m, id), m[id])
RemoveFromStorage(v, m, id) == VectorErase(v, m[id])

(* submapIdExists *)
submapIdExists(m, id) == id \in DOMAIN m

(* getSubmap's table access: id_to_index_[id] default-inserts position 0 *)
GetSubmapTable(m, id) == IF id \in DOMAIN m THEN m ELSE MapPut(m, id, 0)

-----------------------------------------------------------------------------
(* Voxel types and program constants *)

TOP_N == 3               \* PANOPTIC_MAPPING_SERIALIZE_TOP_N_COUNTS
COUNTER_SIZE_BITS == 16  \* width of ClassVoxel::Counter

(* uncertainty_value is a float, kept as the dyadic rational num / 2^exp.
   exp is negative only for the floats of 2^31 and more, which are
   num * 2^8 with num of at most 25 bits. *)
Dyadic(num, exp) == [num |-> num, exp |-> exp]

(* number of bits of a natural below 2^31 *)
Bits(n) ==
  CHOOSE b \in 0 .. 31 :
    IF n = 0 THEN b = 0
    ELSE b > 0 /\ 2 ^ (b - 1) <= n /\ (b = 31 \/ n < 2 ^ b)

(* the same value with an odd num (or 0 / 2^0) *)
RECURSIVE OddForm(_)
OddForm(x) ==
  IF x.num = 0 THEN Dyadic(0, 0)
  ELSE IF x.num % 2 = 0 THEN OddForm(Dyadic(x.num \div 2, x.exp - 1))
  ELSE x

(* the form the values are kept in: fractions with an odd num, integers
   below 2^31 with exp 0, larger values as num * 2^8 *)
Normalize(x) ==
  LET o == OddForm(x) IN
  IF o.exp >= 0 THEN o
  ELSE IF Bits(o.num) - o.exp <= 31 THEN Dyadic(o.num * (2 ^ (0 - o.exp)), 0)
  ELSE Dyadic(o.num * (2 ^ (0 - o.exp - 8)), -8)

(* s / 2^exp rounded to a 24-bit significand, ties to even; sticky says that
   bits below s were cut off before *)
Round24(s, exp, sticky) ==
  IF Bits(s) <= 24 THEN Dyadic(s, exp)
  ELSE LET sh == Bits(s) - 24
           q == s \div (2 ^ sh)
           r == s % (2 ^ sh)
           half == 2 ^ (sh - 1)
           up == r > half \/ (r = half /\ (sticky \/ q % 2 = 1))
       IN  Dyadic(IF up THEN q + 1 ELSE q, exp - sh)

(* operator+ of two floats: the exact sum, rounded.  The operand with the
   finer unit is cut to the bits that can reach the result (the rest is the
   sticky bit). *)
FloatAdd(a, b) ==
  LET x == OddForm(a)
      y == OddForm(b)
  IN  IF x.num = 0 THEN y
      ELSE IF y.num = 0 THEN x
      ELSE LET hi == IF x.exp <= y.exp THEN x ELSE y
               lo == IF x.exp <= y.exp THEN y ELSE x
               d == lo.exp - hi.exp
               top == IF Bits(hi.num) + d > Bits(lo.num)
                        THEN Bits(hi.num) + d ELSE Bits(lo.num)
               k == IF top + 1 > 30 THEN top + 1 - 30 ELSE 0
               cut == k > Bits(lo.num)
               lq == IF cut THEN 0 ELSE lo.num \div (2 ^ k)
               sticky == IF cut THEN TRUE ELSE lo.num % (2 ^ k) # 0
           IN  Round24(hi.num * (2 ^ (d - k)) + lq, lo.exp - k, sticky)

(* operator/ of a float by 2: exact, down to the unit 2^-149 of the
   subnormal floats, where the half of an odd multiple is a tie *)
FloatHalf(x) ==
  LET o == OddForm(Dyadic(x.num, x.exp + 1)) IN
  IF o.exp <= 149 THEN o
  ELSE LET q == o.num \div 2
       IN  OddForm(Dyadic(IF q % 2 = 1 THEN q + 1 ELSE q, 149))

(* (a + b) / 2 in float arithmetic *)
Mean(a, b) == Normalize(FloatHalf(FloatAdd(a, b)))

(* static_cast<uint32_t>(float): truncation towards zero *)
Truncate(x) == x.num \div (2 ^ x.exp)

(* A default-constructed voxel.  uncertainty_value is carried by every voxel
   record and is read only by the ClassUncertaintyVoxel overloads. *)
FreshVoxel ==
  [counts |-> <<>>, belongs_count |-> 0, foreign_count |-> 0,
   current_index |-> -1, is_gt |-> FALSE, uncertainty_value |-> Dyadic(0, 0)]

-----------------------------------------------------------------------------
(* 32-bit words.  A uint32_t is kept as <<low 16 bits, high 16 bits>>. *)

Pow2(n) == 2 ^ n
U16 == 2 ^ 16

U32(lo, hi) == <<lo % U16, hi % U16>>

(* static_cast<uint32_t>(x) of a value of at most 31 bits, or of -1 *)
ToU32(x) == IF x < 0 THEN <<x % U16, U16 - 1>> ELSE <<x % U16, (x \div U16) % U16>>

(* the value of a word (below 2^31) *)
WordValue(w) == w[2] * U16 + w[1]

(* number of bits of the high half of a word of 2^24 and more *)
BitLen(hi) == CHOOSE b \in 9 .. 16 : Pow2(b - 1) <= hi /\ hi < Pow2(b)

(* a uint32_t converted to float: the nearest value with a 24-bit
   significand, ties to the even significand *)
WordToFloat(w) ==
  IF w[2] < Pow2(8) THEN Dyadic(WordValue(w), 0)
  ELSE LET s == BitLen(w[2]) - 8
           q == w[2] * Pow2(16 - s) + (w[1] \div Pow2(s))
           r == w[1] % Pow2(s)
           half == Pow2(s - 1)
           m == IF r > half \/ (r = half /\ q % 2 = 1) THEN q + 1 ELSE q
       IN  IF s = 8 THEN Dyadic(m, -8)
           ELSE IF s = 7 /\ m = Pow2(24) THEN Dyadic(Pow2(23), -8)
           ELSE Dyadic(m * Pow2(s), 0)

(* static_cast<uint32_t>(float) as a word, for a float below 2^32 *)
FloatToU32(x) ==
  IF x.exp >= 0 THEN ToU32(Truncate(x))
  ELSE LET k == 0 - x.exp
           lo == (x.num % U16) * Pow2(k)
       IN  <<lo % U16, ((x.num \div U16) * Pow2(k) + (lo \div U16)) % U16>>

(* static_cast<uint32_t>(lo16) | static_cast<uint32_t>(x) << 16 *)
OrShl16(lo16, x) == <<lo16 % U16, ToU32(x)[1]>>

(* (value << shift) added to a word, modulo 2^32; shift is a multiple of 8 and
   value has at most 16 bits *)
AddShifted(w, value, shift) ==
  LET addLo == IF shift >= 16 THEN 0 ELSE (value * Pow2(shift)) % U16
      addHi == IF shift >= 16 THEN (value * Pow2(shift - 16)) % U16
                               ELSE ((value * Pow2(shift)) \div U16) % U16
      lo == w[1] + addLo
  IN  <<lo % U16, (w[2] + addHi + (lo \div U16)) % U16>>

(* (T)((word & (mask << shift)) >> shift) for T of `bits` bits (8 or 16).
   mask = ~static_cast<T>(0) is computed in int and is all ones as a uint32_t,
   so the and keeps every bit from `shift` upwards; the conversion to T cuts
   the result to its low `bits` bits. *)
ExtractField(w, shift, bits) ==
  LET low16 == IF shift >= 16
                 THEN w[2] \div Pow2(shift - 16)
                 ELSE (w[1] \div Pow2(shift)) + (w[2] % Pow2(shift)) * Pow2(16 - shift)
  IN  low16 % Pow2(bits)

(* std::ceil(a / b) for positive integers *)
CeilDiv(a, b) == (a + b - 1) \div b

IndexWords == CeilDiv(TOP_N, 4)
CountWords == CeilDiv(TOP_N, 32 \div COUNTER_SIZE_BITS)

-----------------------------------------------------------------------------
(* get_top_n_elems *)

(* natural ordering of std::pair<Counter, uint8_t> *)
PairLess(a, b) == a[1] < b[1] \/ (a[1] = b[1] /\ a[2] < b[2])

(* priority_queue::top(): the greatest element *)
QueueTop(q) == CHOOSE m \in q : \A x \in q : x = m \/ PairLess(x, m)

(* the first loop: i runs over uint8_t up to static_cast<uint8_t>(size) *)
PushedItems(all_items) ==
  {<<all_items[i + 1], i>> : i \in 0 .. ((Len(all_items) % 256) - 1)}

(* the second loop: n times top() then pop().  On an empty queue both are
   undefined: `u` is what the build yields there (the element last popped is
   still in the vector's storage, or garbage). *)
RECURSIVE TopLoop(_, _, _, _)
TopLoop(q, n, last, u) ==
  IF n = 0 THEN <<>>
  ELSE IF q = {}
         THEN LET g == IF u.kind = "stale" THEN last ELSE <<u.count, u.idx>>
              IN  <<g>> \o TopLoop(q, n - 1, last, u)
         ELSE LET m == QueueTop(q)
              IN  <<m>> \o TopLoop(q \ {m}, n - 1, m, u)

get_top_n_elems(all_items, n, u) ==
  LET q == PushedItems(all_items)
      sel == TopLoop(q, n, <<0, 0>>, u)
  IN  [crash |-> Cardinality(q) < n /\ u.kind = "crash",
       undefined |-> Cardinality(q) < n,
       indices |-> [i \in 1 .. n |-> sel[i][2]],
       counts |-> [i \in 1 .. n |-> sel[i][1]]]

-----------------------------------------------------------------------------
(* convert_vector_to_uint32 *)

RECURSIVE ConvertLoop(_, _, _, _, _, _)
ConvertLoop(v, bits_per_entry, i, data_int, saved_count, out) ==
  LET data_packages == 32 \div bits_per_entry IN
  IF i >= Len(v)
    THEN IF saved_count < Len(v) THEN Append(out, data_int) ELSE out
    ELSE LET byte_idx == i % data_packages
             d == AddShifted(data_int, v[i + 1], byte_idx * bits_per_entry)
         IN  IF byte_idx = data_packages - 1
               THEN ConvertLoop(v, bits_per_entry, i + 1, <<0, 0>>,
                                saved_count + data_packages, Append(out, d))
               ELSE ConvertLoop(v, bits_per_entry, i + 1, d, saved_count, out)

convert_vector_to_uint32(v, bits_per_entry) ==
  ConvertLoop(v, bits_per_entry, 0, <<0, 0>>, 0, <<>>)

-----------------------------------------------------------------------------
(* convertVoxelToInt32(ClassVoxel): the words appended, the return value and
   how the call ended ("ok", "check" for a failed CHECK, "crash"). *)

ClassCountLimit == 258

convertVoxelToInt32(v, u) ==
  LET class_count == Len(v.counts)
      head == << ToU32(class_count),
                 OrShl16(v.belongs_count, v.foreign_count),
                 OrShl16(IF v.is_gt THEN 1 ELSE 0, v.current_index) >>
      top == get_top_n_elems(v.counts, TOP_N, u)
  IN  IF ~(class_count < ClassCountLimit)
        THEN [status |-> "check", words |-> <<>>, ret |-> FALSE,
              undefined |-> FALSE, indices |-> <<>>, counts |-> <<>>]
      ELSE IF class_count = 0
        THEN [status |-> "ok", words |-> head,
              ret |-> (v.belongs_count # 0 \/ v.foreign_count # 0),
              undefined |-> FALSE, indices |-> <<>>, counts |-> <<>>]
      ELSE IF top.crash
        THEN [status |-> "crash", words |-> head, ret |-> FALSE,
              undefined |-> TRUE, indices |-> <<>>, counts |-> <<>>]
      ELSE [status |-> "ok",
            words |-> head \o convert_vector_to_uint32(top.indices, 8)
                           \o convert_vector_to_uint32(top.counts, COUNTER_SIZE_BITS),
            ret |-> TRUE, undefined |-> top.undefined,
            indices |-> top.indices, counts |-> top.counts]

(* convertVoxelToInt32(ClassUncertaintyVoxel): appends the uncertainty word
   when the base call returned true, then flows off the end without a return
   statement.  The callers ignore the value; a build that traps there ends
   the process. *)
convertUncertaintyVoxelToInt32(v, u, b) ==
  LET base == convertVoxelToInt32(v, u) IN
  IF base.status # "ok" THEN base
  ELSE IF b = "trap" THEN [base EXCEPT !.status = "crash", !.undefined = TRUE]
  ELSE [base EXCEPT !.undefined = TRUE,
                    !.words = IF base.ret
                                THEN base.words \o <<FloatToU32(v.uncertainty_value)>>
                                ELSE base.words]

-----------------------------------------------------------------------------
(* readVoxelFromInt32(ClassVoxel).  `d` is the word vector, data_idx the
   0-based read position, v the voxel written to.  status "throw" is the
   std::out_of_range of vector::at; data_idx is a reference and keeps the
   increments made before the exception. *)

InRange(d, idx) == idx >= 0 /\ idx < Len(d)
At(d, idx) == d[idx + 1]

Zeros(n) == [i \in 1 .. n |-> 0]

(* for (i...) voxel.counts.at(indices.at(i)) = counts.at(i); *)
RECURSIVE Scatter(_, _, _, _)
Scatter(dest, indices, counts, i) ==
  IF i > Len(indices) THEN [ok |-> TRUE, counts |-> dest]
  ELSE IF ~(indices[i] < Len(dest)) THEN [ok |-> FALSE, counts |-> dest]
  ELSE Scatter([dest EXCEPT ![indices[i] + 1] = counts[i]], indices, counts, i + 1)

readVoxelFromInt32(d, data_idx, v) ==
  IF ~InRange(d, data_idx)
    THEN [status |-> "throw", data_idx |-> data_idx + 1, voxel |-> v, ret |-> FALSE]
  ELSE IF ~InRange(d, data_idx + 1)
    THEN [status |-> "throw", data_idx |-> data_idx + 2, voxel |-> v, ret |-> FALSE]
  ELSE IF ~InRange(d, data_idx + 2)
    THEN [status |-> "throw", data_idx |-> data_idx + 3, voxel |-> v, ret |-> FALSE]
  ELSE
  LET num_classes == At(d, data_idx)
      bytes_1 == At(d, data_idx + 1)
      bytes_2 == At(d, data_idx + 2)
      idx3 == data_idx + 3
      v1 == [v EXCEPT !.foreign_count = bytes_1[2] % 256,
                      !.belongs_count = bytes_1[1] % 256,
                      !.current_index = bytes_2[2] % 256,
                      !.is_gt = (bytes_2[1] # 0)]
  IN
  IF num_classes = <<0, 0>>
    THEN [status |-> "ok", data_idx |-> idx3,
          voxel |-> [v1 EXCEPT !.current_index = -1],
          ret |-> (v1.belongs_count # 0 \/ v1.foreign_count # 0)]
  ELSE
  LET v2 == [v1 EXCEPT !.counts = v1.counts \o Zeros(WordValue(num_classes))]
      idx4 == idx3 + IndexWords
      idx5 == idx4 + CountWords
      indices == [i \in 1 .. TOP_N |->
                    ExtractField(At(d, idx3 + ((i - 1) \div 4)),
                                 ((i - 1) % 4) * 8, 8)]
      data_per_int == 32 \div COUNTER_SIZE_BITS
      counts == [i \in 1 .. TOP_N |->
                    ExtractField(At(d, idx4 + ((i - 1) \div data_per_int)),
                                 ((i - 1) % data_per_int) * COUNTER_SIZE_BITS,
                                 COUNTER_SIZE_BITS)]
  IN
  IF ~InRange(d, idx3 + ((TOP_N - 1) \div 4))
    THEN [status |-> "throw", data_idx |-> idx3, voxel |-> v2, ret |-> FALSE]
  ELSE IF ~InRange(d, idx4 + ((TOP_N - 1) \div data_per_int))
    THEN [status |-> "throw", data_idx |-> idx4, voxel |-> v2, ret |-> FALSE]
  ELSE LET sc == Scatter(v2.counts, indices, counts, 1) IN
       IF ~sc.ok
         THEN [status |-> "throw", data_idx |-> idx5,
               voxel |-> [v2 EXCEPT !.counts = sc.counts], ret |-> FALSE]
         ELSE [status |-> "ok", data_idx |-> idx5,
               voxel |-> [v2 EXCEPT !.counts = sc.counts], ret |-> TRUE]

(* readVoxelFromInt32(ClassUncertaintyVoxel): reads the uncertainty word when
   the base call returned true.  When it returned false the function flows
   off its end: the build goes on as written, traps, or has dropped the test
   (the false branch cannot be reached in a defined program) and reads the
   word all the same. *)
readUncertaintyVoxelFromInt32(d, data_idx, v, b) ==
  LET base == readVoxelFromInt32(d, data_idx, v)
      readUnc ==
        IF ~InRange(d, base.data_idx)
          THEN [base EXCEPT !.status = "throw", !.data_idx = base.data_idx + 1]
          ELSE [base EXCEPT !.data_idx = base.data_idx + 1, !.ret = TRUE,
                            !.voxel.uncertainty_value = WordToFloat(At(d, base.data_idx))]
  IN
  IF base.status # "ok" THEN base
  ELSE IF base.ret THEN readUnc
  ELSE IF b = "trap" THEN [base EXCEPT !.status = "crash"]
  ELSE IF b = "assume_taken" THEN readUnc
  ELSE base

-----------------------------------------------------------------------------
(* Block<VoxelType>::serializeToIntegers / deserializeFromIntegers *)

ConvertAny(v, var, u, b) ==
  IF var = "uncertainty" THEN convertUncertaintyVoxelToInt32(v, u, b)
                         ELSE convertVoxelToInt32(v, u)

ReadAny(d, data_idx, v, var, b) ==
  IF var = "uncertainty" THEN readUncertaintyVoxelFromInt32(d, data_idx, v, b)
                         ELSE readVoxelFromInt32(d, data_idx, v)

(* data->clear(); for (voxel_idx ...) convertVoxelToInt32(voxels_[voxel_idx], data) *)
RECURSIVE SerializeLoop(_, _, _, _, _, _, _)
SerializeLoop(vs, n, voxel_idx, out, var, u, b) ==
  IF ~(voxel_idx < n) THEN [status |-> "ok", data |-> out]
  ELSE LET r == ConvertAny(vs[voxel_idx + 1], var, u, b) IN
       IF r.status # "ok"
         THEN [status |-> r.status, data |-> out \o r.words]
         ELSE SerializeLoop(vs, n, voxel_idx + 1, out \o r.words, var, u, b)

serializeToIntegers(vs, n, var, u, b) == SerializeLoop(vs, n, 0, <<>>, var, u, b)

(* the two CHECK_EQ after the loop of deserializeFromIntegers *)
EndChecksVoxelsOnly(voxel_idx, data_idx, n, num_data_packets) == voxel_idx = n
EndChecks(voxel_idx, data_idx, n, num_data_packets) ==
  /\ voxel_idx = n
  /\ data_idx = num_data_packets

RECURSIVE DeserializeLoop(_, _, _, _, _, _)
DeserializeLoop(d, n, voxel_idx, data_idx, vs, vb) ==
  IF ~(voxel_idx < n /\ data_idx < Len(d))
    THEN [status |-> IF EndChecks(voxel_idx, data_idx, n, Len(d))
                       THEN "ok" ELSE "check",
          voxel_idx |-> voxel_idx, data_idx |-> data_idx, voxels |-> vs]
    ELSE LET r == ReadAny(d, data_idx, vs[voxel_idx + 1], vb[1], vb[2]) IN
         IF r.status # "ok"
           THEN [status |-> r.status, voxel_idx |-> voxel_idx,
                 data_idx |-> r.data_idx,
                 voxels |-> [vs EXCEPT ![voxel_idx + 1] = r.voxel]]
           ELSE DeserializeLoop(d, n, voxel_idx + 1, r.data_idx,
                                [vs EXCEPT ![voxel_idx + 1] = r.voxel], vb)

deserializeFromIntegers(d, n, vs, var, b) ==
  DeserializeLoop(d, n, 0, 0, vs, <<var, b>>)

FreshBlock(n) == [i \in 1 .. n |-> FreshVoxel]

-----------------------------------------------------------------------------
(* Inputs of the codec scenarios *)

MaxClasses == 4          \* longest counts vector enumerated entry by entry
NumVoxels == 2           \* voxels of a serialized block
MaxStreamLen == 8        \* longest word stream handed to deserializeFromIntegers
MaxStreamVoxels == 2     \* largest num_voxels_ of a block a stream is loaded into

CountVals == {0, 3, 9, 40000}
BelongsVals == {0, 10, 256}
ForeignVals == {0, 2}
IndexVals == {-1, 0, 2}

Builds == {"as_written", "trap", "assume_taken"}
UBChoices == {[kind |-> "crash", count |-> 0, idx |-> 0],
              [kind |-> "stale", count |-> 0, idx |-> 0],
              [kind |-> "garbage", count |-> 7, idx |-> 200]}

RECURSIVE SeqsUpTo(_, _)
SeqsUpTo(S, n) ==
  IF n = 0 THEN {<<>>}
  ELSE LET shorter == SeqsUpTo(S, n - 1)
       IN  shorter \cup {Append(q, x) : q \in {r \in shorter : Len(r) = n - 1}, x \in S}

(* counts vectors at the edge of the 8-bit class index: 255, 256, 257 classes *)
LargeCounts(c) == [i \in 1 .. c |-> IF i = 1 THEN 5
                                    ELSE IF i = 3 THEN 9
                                    ELSE IF i >= c - 1 THEN 9
                                    ELSE 0]

CountsInputs == SeqsUpTo(CountVals, MaxClasses)
                  \cup {LargeCounts(c) : c \in {255, 256, 257}}

(* current_index names a class of the voxel, or is -1 (no class yet) *)
VoxelInputs ==
  {v \in {[counts |-> c, belongs_count |-> b, foreign_count |-> f,
           current_index |-> ci, is_gt |-> g,
           uncertainty_value |-> Dyadic(0, 0)] :
             c \in CountsInputs, b \in BelongsVals, f \in ForeignVals,
             ci \in IndexVals, g \in BOOLEAN} :
     v.current_index < Len(v.counts)}

(* voxels of a block: no class, fewer than TOP_N classes, TOP_N and more;
   never touched, or with votes *)
BlockVoxelInputs ==
  {[counts |-> c, belongs_count |-> b, foreign_count |-> 0,
    current_index |-> IF c = <<>> THEN -1 ELSE 0,
    is_gt |-> FALSE, uncertainty_value |-> Dyadic(1, 0)] :
     c \in {<<>>, <<3, 9>>, <<5, 0, 9, 3>>}, b \in BelongsVals}

StreamWords == {<<0, 0>>, <<1, 0>>, <<3, 0>>}

NoCall == [status |-> "none"]

CodecIdle ==
  /\ variant = "class"
  /\ build = "as_written"
  /\ ub = [kind |-> "crash", count |-> 0, idx |-> 0]
  /\ voxel = FreshVoxel
  /\ num_voxels_ = 0
  /\ voxels_ = <<>>
  /\ data = <<>>
  /\ enc = NoCall
  /\ dec = NoCall
  /\ loaded = <<>>
  /\ pc = "idle"

-----------------------------------------------------------------------------
(* Voxel fusion *)

(* classVoxelBelongingProbability: belongs_count / (belongs_count +
   foreign_count), as the fraction num / den; without votes it is 0 / 0. *)
classVoxelBelongingProbability(v, nv) ==
  IF v.belongs_count + v.foreign_count = 0
    THEN [nan |-> (nv = "nan"), num |-> 0, den |-> 1]
    ELSE [nan |-> FALSE, num |-> v.belongs_count,
          den |-> v.belongs_count + v.foreign_count]

(* operator> and operator<= on the probabilities (false on a NaN) *)
ProbGreater(p, q) == ~p.nan /\ ~q.nan /\ p.num * q.den > q.num * p.den
ProbLessEq(p, q) == ~p.nan /\ ~q.nan /\ p.num * q.den <= q.num * p.den

Adopt(a, b) ==
  [b EXCEPT !.current_index = a.current_index,
            !.foreign_count = a.foreign_count,
            !.belongs_count = a.belongs_count,
            !.counts = a.counts]

(* variants of the merge with one slip each *)
mergeClearsGt(a, b, nv) ==
  LET take == a.is_gt \/ (ProbGreater(classVoxelBelongingProbability(a, nv),
                                      classVoxelBelongingProbability(b, nv))
                          /\ ~b.is_gt)
      b1 == IF take THEN Adopt(a, b) ELSE b
  IN  [b1 EXCEPT !.is_gt = a.is_gt]

mergeKeepsCounts(a, b, nv) ==
  LET take == a.is_gt \/ (ProbGreater(classVoxelBelongingProbability(a, nv),
                                      classVoxelBelongingProbability(b, nv))
                          /\ ~b.is_gt)
      b1 == IF take THEN [Adopt(a, b) EXCEPT !.counts = b.counts] ELSE b
  IN  IF a.is_gt THEN [b1 EXCEPT !.is_gt = TRUE] ELSE b1

mergeOnEqual(a, b, nv) ==
  LET take == a.is_gt \/ (~ProbGreater(classVoxelBelongingProbability(b, nv),
                                       classVoxelBelongingProbability(a, nv))
                          /\ ~b.is_gt)
      b1 == IF take THEN Adopt(a, b) ELSE b
  IN  IF a.is_gt THEN [b1 EXCEPT !.is_gt = TRUE] ELSE b1

(* mergeVoxelAIntoVoxelB<ClassVoxel> *)
mergeVoxelAIntoVoxelB(a, b, nv) ==
  LET take == a.is_gt \/ (ProbGreater(classVoxelBelongingProbability(a, nv),
                                      classVoxelBelongingProbability(b, nv))
                          /\ ~b.is_gt)
      b1 == IF take THEN Adopt(a, b) ELSE b
  IN  IF a.is_gt THEN [b1 EXCEPT !.is_gt = TRUE] ELSE b1

(* mergeVoxelAIntoVoxelB<ClassUncertaintyVoxel> *)
mergeUncertaintyVoxelAIntoVoxelB(a, b, nv) ==
  LET b1 == mergeVoxelAIntoVoxelB(a, b, nv)
  IN  IF ~b1.is_gt
        THEN [b1 EXCEPT !.uncertainty_value =
                          Mean(b1.uncertainty_value, a.uncertainty_value)]
        ELSE b1

MergeAny(a, b, var, nv) ==
  IF var = "uncertainty" THEN mergeUncertaintyVoxelAIntoVoxelB(a, b, nv)
                         ELSE mergeVoxelAIntoVoxelB(a, b, nv)

MaxMerges == 3           \* merges into one target voxel

FusionVoxels ==
  {[counts |-> c, belongs_count |-> b, foreign_count |-> f,
    current_index |-> IF c = <<>> THEN -1 ELSE 2,
    is_gt |-> g, uncertainty_value |-> Dyadic(u, 0)] :
     c \in {<<>>, <<5, 0, 9, 3>>}, b \in {0, 1, 3}, f \in {0, 1},
     g \in BOOLEAN, u \in {0, 2}}

FusionIdle ==
  /\ voxel_B = FreshVoxel
  /\ voxel_A = FreshVoxel
  /\ B_before = FreshVoxel
  /\ gt_seen = FALSE
  /\ merges = 0
  /\ no_votes = "zero"

-----------------------------------------------------------------------------
(* Actions of the collection *)

Snapshot == <<id_to_index_, submaps_>>

CreateSubmap ==
  /\ ~crashed
  /\ id_counter < MaxSubmaps
  /\ \E vs \in VoxelSizes, vps \in VoxelsPerSide :
       LET s == NewSubmap(id_counter, vs, vps) IN
       /\ submaps_' = Append(submaps_, s)
       /\ id_to_index_' = MapPut(id_to_index_, s.id, Len(submaps_) + 1 - 1)
       /\ created' = MapPut(created, s.id, s)
       /\ lastRet' = [kind |-> "submap", submap |-> s]
       /\ lastOp' = [op |-> "createSubmap", id |-> s.id]
  /\ id_counter' = id_counter + 1
  /\ pre' = Snapshot
  /\ UNCHANGED <<pending, removed, crashed>>
  /\ UNCHANGED <<codecVars, fusionVars>>

(* A caller constructs a sub-map it will later hand over with addSubmap. *)
ConstructSubmap ==
  /\ ~crashed
  /\ id_counter < MaxSubmaps
  /\ \E vs \in VoxelSizes, vps \in VoxelsPerSide :
       LET s == NewSubmap(id_counter, vs, vps) IN
       /\ pending' = pending \cup {s}
       /\ created' = MapPut(created, s.id, s)
       /\ lastOp' = [op |-> "construct", id |-> s.id]
  /\ id_counter' = id_counter + 1
  /\ lastRet' = NoRet
  /\ pre' = Snapshot
  /\ UNCHANGED <<submaps_, id_to_index_, removed, crashed>>
  /\ UNCHANGED <<codecVars, fusionVars>>

AddSubmap ==
  /\ ~crashed
  /\ \E s \in pending :
       /\ id_to_index_' = MapPut(id_to_index_, s.id, Len(submaps_))
       /\ submaps_' = Append(submaps_, s)
       /\ pending' = pending \ {s}
       /\ lastOp' = [op |-> "addSubmap", id |-> s.id]
  /\ lastRet' = NoRet
  /\ pre' = Snapshot
  /\ UNCHANGED <<id_counter, created, removed, crashed>>
  /\ UNCHANGED <<codecVars, fusionVars>>

(* submaps_.erase(submaps_.begin() + it->second): past the end of the vector
   it is undefined (the call crashes, or the storage is left as it was). *)
RemoveStorageOutcomes(v, m, id) ==
  IF m[id] < Len(v)
    THEN {[storage |-> RemoveFromStorage(v, m, id), crashed |-> FALSE]}
    ELSE {[storage |-> v, crashed |-> TRUE], [storage |-> v, crashed |-> FALSE]}

RemoveSubmap ==
  /\ ~crashed
  /\ \E id \in Ids :
       /\ lastOp' = [op |-> "removeSubmap", id |-> id]
       /\ IF ~submapIdExists(id_to_index_, id)
            THEN /\ lastRet' = [kind |-> "bool", value |-> FALSE]
                 /\ UNCHANGED <<submaps_, id_to_index_, removed, crashed>>
            ELSE /\ \E o \in RemoveStorageOutcomes(submaps_, id_to_index_, id) :
                      /\ submaps_' = o.storage
                      /\ crashed' = o.crashed
                 /\ id_to_index_' = RemoveFromTable(id_to_index_, id)
                 /\ removed' = removed \cup {id}
                 /\ lastRet' = [kind |-> "bool", value |-> TRUE]
  /\ pre' = Snapshot
  /\ UNCHANGED <<id_counter, pending, created>>
  /\ UNCHANGED <<codecVars, fusionVars>>

SubmapIdExists ==
  /\ ~crashed
  /\ \E id \in Ids :
       /\ lastOp' = [op |-> "submapIdExists", id |-> id]
       /\ lastRet' = [kind |-> "bool", value |-> submapIdExists(id_to_index_, id)]
  /\ pre' = Snapshot
  /\ UNCHANGED <<submaps_, id_to_index_, id_counter, pending, created, removed,
                 crashed>>
  /\ UNCHANGED <<codecVars, fusionVars>>

(* getSubmap(id): *submaps_[id_to_index_[id]].  operator[] of the table inserts
   an absent id at position 0; operator[] of the vector is unchecked, so a
   position past the end is undefined behaviour: the call crashes or hands
   back a reference to whatever lies there. *)
GetSubmapOutcomes(m, v, id) ==
  LET idx == GetSubmapTable(m, id)[id] IN
  IF idx < Len(v)
    THEN {[ret |-> [kind |-> "submap", submap |-> VectorAt(v, idx)],
           crashed |-> FALSE]}
    ELSE {[ret |-> NoRet, crashed |-> TRUE],
          [ret |-> [kind |-> "submap", submap |-> Garbage], crashed |-> FALSE]}

GetSubmapOf(id) ==
  /\ lastOp' = [op |-> "getSubmap", id |-> id]
  /\ id_to_index_' = GetSubmapTable(id_to_index_, id)
  /\ \E o \in GetSubmapOutcomes(id_to_index_, submaps_, id) :
       /\ lastRet' = o.ret
       /\ crashed' = o.crashed
  /\ pre' = Snapshot
  /\ UNCHANGED <<submaps_, id_counter, pending, created, removed>>

(* getSubmap called as its comment asks: only after the id was checked. *)
GetSubmap ==
  /\ ~crashed
  /\ UNCHANGED <<codecVars, fusionVars>>
  /\ \E id \in Ids : submapIdExists(id_to_index_, id) /\ GetSubmapOf(id)

(* getSubmap called with whatever id the caller has. *)
GetSubmapAnyId ==
  /\ ~crashed
  /\ UNCHANGED <<codecVars, fusionVars>>
  /\ \E id \in Ids : GetSubmapOf(id)

Clear ==
  /\ ~crashed
  /\ submaps_' = <<>>
  /\ id_to_index_' = <<>>
  /\ removed' = removed \cup DOMAIN id_to_index_
  /\ lastOp' = [op |-> "clear", id |-> -1]
  /\ lastRet' = NoRet
  /\ pre' = Snapshot
  /\ UNCHANGED <<id_counter, pending, created, crashed>>
  /\ UNCHANGED <<codecVars, fusionVars>>

InitCollection ==
  /\ submaps_ = <<>>
  /\ id_to_index_ = <<>>
  /\ id_counter = 0
  /\ pending = {}
  /\ created = <<>>
  /\ removed = {}
  /\ pre = <<<<>>, <<>>>>
  /\ lastOp = [op |-> "init", id |-> -1]
  /\ lastRet = NoRet
  /\ crashed = FALSE

InitSubmaps == InitCollection /\ CodecIdle /\ FusionIdle

NextCollection ==
  \/ CreateSubmap
  \/ ConstructSubmap
  \/ AddSubmap
  \/ RemoveSubmap
  \/ SubmapIdExists
  \/ GetSubmap
  \/ Clear

SpecCollection == InitSubmaps /\ [][NextCollection]_vars

(* ids the table holds that no sub-map was ever constructed under *)
Phantoms == (DOMAIN id_to_index_) \ (DOMAIN created)

(* The collection under callers that do not check ids before getSubmap,
   followed up to the first call with an absent id. *)
UncheckedCreateSubmap == Phantoms = {} /\ CreateSubmap
UncheckedRemoveSubmap == Phantoms = {} /\ RemoveSubmap
UncheckedSubmapIdExists == Phantoms = {} /\ SubmapIdExists
UncheckedGetSubmap == Phantoms = {} /\ GetSubmapAnyId

NextLookup ==
  \/ UncheckedCreateSubmap
  \/ UncheckedRemoveSubmap
  \/ UncheckedSubmapIdExists
  \/ UncheckedGetSubmap

SpecLookup == InitSubmaps /\ [][NextLookup]_vars

-----------------------------------------------------------------------------
(* Codec actions *)

(* convertVoxelToInt32(voxel, &data) on an empty vector *)
EncodeVoxel ==
  /\ pc = "voxel"
  /\ enc' = convertVoxelToInt32(voxel, ub)
  /\ data' = enc'.words
  /\ pc' = "encoded"
  /\ UNCHANGED <<variant, build, ub, voxel, num_voxels_, voxels_, dec, loaded>>
  /\ UNCHANGED <<collVars, fusionVars>>

(* readVoxelFromInt32(&data, data_idx = 0, fresh voxel) *)
DecodeVoxel ==
  /\ pc = "encoded"
  /\ enc.status = "ok"
  /\ dec' = readVoxelFromInt32(data, 0, FreshVoxel)
  /\ pc' = "decoded"
  /\ UNCHANGED <<variant, build, ub, voxel, num_voxels_, voxels_, data, enc, loaded>>
  /\ UNCHANGED <<collVars, fusionVars>>

SerializeBlock ==
  /\ pc = "block"
  /\ enc' = serializeToIntegers(voxels_, num_voxels_, variant, ub, build)
  /\ data' = enc'.data
  /\ pc' = "serialized"
  /\ UNCHANGED <<variant, build, ub, voxel, num_voxels_, voxels_, dec, loaded>>
  /\ UNCHANGED <<collVars, fusionVars>>

(* deserializeFromIntegers(data) on a block of num_voxels_ fresh voxels *)
DeserializeBlock ==
  /\ pc = "serialized"
  /\ enc.status = "ok"
  /\ dec' = deserializeFromIntegers(data, num_voxels_, FreshBlock(num_voxels_),
                                    variant, build)
  /\ loaded' = dec'.voxels
  /\ pc' = "deserialized"
  /\ UNCHANGED <<variant, build, ub, voxel, num_voxels_, voxels_, data, enc>>
  /\ UNCHANGED <<collVars, fusionVars>>

(* deserializeFromIntegers on a word stream from the persistence layer *)
DeserializeStream ==
  /\ pc = "stream"
  /\ dec' = deserializeFromIntegers(data, num_voxels_, FreshBlock(num_voxels_),
                                    variant, build)
  /\ loaded' = dec'.voxels
  /\ pc' = "loaded"
  /\ UNCHANGED <<variant, build, ub, voxel, num_voxels_, voxels_, data, enc>>
  /\ UNCHANGED <<collVars, fusionVars>>

InitCodec ==
  /\ InitCollection
  /\ FusionIdle
  /\ variant = "class"
  /\ build = "as_written"
  /\ ub \in UBChoices
  /\ voxel \in VoxelInputs
  /\ num_voxels_ = 0
  /\ voxels_ = <<>>
  /\ data = <<>>
  /\ enc = NoCall
  /\ dec = NoCall
  /\ loaded = <<>>
  /\ pc = "voxel"

NextCodec ==
  \/ EncodeVoxel
  \/ DecodeVoxel

SpecCodec == InitCodec /\ [][NextCodec]_vars

InitBlock ==
  /\ InitCollection
  /\ FusionIdle
  /\ variant \in {"class", "uncertainty"}
  /\ build \in Builds
  /\ ub \in UBChoices
  /\ voxel = FreshVoxel
  /\ num_voxels_ \in 1 .. NumVoxels
  /\ voxels_ \in [1 .. num_voxels_ -> BlockVoxelInputs]
  /\ data = <<>>
  /\ enc = NoCall
  /\ dec = NoCall
  /\ loaded = <<>>
  /\ pc = "block"

NextBlock ==
  \/ SerializeBlock
  \/ DeserializeBlock

SpecBlock == InitBlock /\ [][NextBlock]_vars

InitStream ==
  /\ InitCollection
  /\ FusionIdle
  /\ variant \in {"class", "uncertainty"}
  /\ build \in Builds
  /\ ub = [kind |-> "crash", count |-> 0, idx |-> 0]
  /\ voxel = FreshVoxel
  /\ num_voxels_ \in 0 .. MaxStreamVoxels
  /\ voxels_ = <<>>
  /\ data \in SeqsUpTo(StreamWords, MaxStreamLen)
  /\ enc = NoCall
  /\ dec = NoCall
  /\ loaded = <<>>
  /\ pc = "stream"

NextStream == DeserializeStream

SpecStream == InitStream /\ [][NextStream]_vars

-----------------------------------------------------------------------------
(* Fusion actions *)

MergeVoxelAIntoVoxelB ==
  /\ pc = "fusion"
  /\ merges < MaxMerges
  /\ \E a \in FusionVoxels :
       /\ voxel_A' = a
       /\ voxel_B' = MergeAny(a, voxel_B, variant, no_votes)
  /\ B_before' = voxel_B
  /\ gt_seen' = (gt_seen \/ voxel_B'.is_gt)
  /\ merges' = merges + 1
  /\ UNCHANGED <<no_votes, collVars, codecVars>>

InitFusion ==
  /\ InitCollection
  /\ variant \in {"class", "uncertainty"}
  /\ build = "as_written"
  /\ ub = [kind |-> "crash", count |-> 0, idx |-> 0]
  /\ voxel = FreshVoxel
  /\ num_voxels_ = 0
  /\ voxels_ = <<>>
  /\ data = <<>>
  /\ enc = NoCall
  /\ dec = NoCall
  /\ loaded = <<>>
  /\ pc = "fusion"
  /\ voxel_B \in FusionVoxels
  /\ voxel_A = FreshVoxel
  /\ B_before = voxel_B
  /\ gt_seen = voxel_B.is_gt
  /\ merges = 0
  /\ no_votes \in {"zero", "nan"}

NextFusion == MergeVoxelAIntoVoxelB

SpecFusion == InitFusion /\ [][NextFusion]_vars

-----------------------------------------------------------------------------
(* Collection claims *)

Live == (DOMAIN created) \ (removed \cup {s.id : s \in pending})

\* C3 (collection density): in every state reached by create/add/remove
\* operations, and so after each removal, the recorded positions of the
\* remaining ids are exactly 0..n-1 with n the number of stored sub-maps (each a
\* valid index, no gaps, no two ids on one position), and submapIdExists is
\* false for every removed id and true for every live id.
CollectionDensity ==
  /\ \A id \in DOMAIN id_to_index_ :
        id_to_index_[id] >= 0 /\ id_to_index_[id] < Len(submaps_)
  /\ {id_to_index_[id] : id \in DOMAIN id_to_index_} = 0 .. (Len(submaps_) - 1)
  /\ \A a, b \in DOMAIN id_to_index_ :
        id_to_index_[a] = id_to_index_[b] => a = b
  /\ \A id \in removed : ~submapIdExists(id_to_index_, id)
  /\ \A id \in Live : submapIdExists(id_to_index_, id)

\* a removal from the middle happened: a remaining id was renumbered
CollectionDensityWitness ==
  /\ lastOp.op = "removeSubmap"
  /\ lastRet = [kind |-> "bool", value |-> TRUE]
  /\ Len(submaps_) >= 2
  /\ \E id \in DOMAIN id_to_index_ : id_to_index_[id] # pre[1][id]

\* C7 (identifier stability): for a live id, the sub-map stored at the id's
\* recorded position is the one constructed under that id, and getSubmap(id)
\* returns it, whatever was removed in between.
IdentifierStability ==
  /\ \A id \in Live :
        /\ id \in DOMAIN id_to_index_
        /\ id_to_index_[id] < Len(submaps_)
        /\ VectorAt(submaps_, id_to_index_[id]) = created[id]
  /\ (lastOp.op = "getSubmap" /\ lastOp.id \in Live)
        => lastRet = [kind |-> "submap", submap |-> created[lastOp.id]]

\* getSubmap on a live id whose position changed since it was stored
IdentifierStabilityWitness ==
  /\ lastOp.op = "getSubmap"
  /\ lastOp.id \in Live
  /\ \E r \in removed : r < lastOp.id
  /\ id_to_index_[lastOp.id] < lastOp.id
  /\ lastRet.kind = "submap"

\* C10 (lookups are read-only): after submapIdExists(id) or getSubmap(id), for
\* any id including an absent one, the id-to-position table and the stored
\* sub-maps are what they were before the call.
LookupsReadOnly ==
  lastOp.op \in {"submapIdExists", "getSubmap"}
     => /\ id_to_index_ = pre[1]
        /\ submaps_ = pre[2]
        /\ ~crashed

-----------------------------------------------------------------------------
(* Codec claims *)

(* class i (0-based) is among the TOP_N classes of `counts`: fewer than TOP_N
   classes come before it in the order "greater count first, of equal counts
   the greater index first" *)
IsTopClass(counts, i) ==
  Cardinality({j \in 0 .. (Len(counts) - 1) :
                 PairLess(<<counts[i + 1], i>>, <<counts[j + 1], j>>)}) < TOP_N

\* C1 (voxel round trip): for a voxel with fewer than 258 classes, decoding
\* the words written by convertVoxelToInt32 into a fresh voxel with
\* readVoxelFromInt32 gives back belongs_count, foreign_count, is_gt,
\* current_index and the counts of the top-K classes, every other count zero.
VoxelRoundTrip ==
  (pc = "decoded" /\ Len(voxel.counts) < ClassCountLimit)
        => /\ dec.status = "ok"
           /\ dec.voxel.belongs_count = voxel.belongs_count
           /\ dec.voxel.foreign_count = voxel.foreign_count
           /\ dec.voxel.is_gt = voxel.is_gt
           /\ dec.voxel.current_index = voxel.current_index
           /\ Len(dec.voxel.counts) = Len(voxel.counts)
           /\ \A i \in 0 .. (Len(voxel.counts) - 1) :
                dec.voxel.counts[i + 1] =
                  IF IsTopClass(voxel.counts, i) THEN voxel.counts[i + 1] ELSE 0

\* C8 (tie-break determinism): for TOP_N <= C < 258 classes the selection of
\* convertVoxelToInt32 is defined by the counts alone: it emits TOP_N classes
\* of the voxel in decreasing order of count, of two equal counts the higher
\* index first, and no class left out comes before an emitted one.
TieBreakDeterminism ==
  (pc \in {"encoded", "decoded"}
     /\ Len(voxel.counts) >= TOP_N /\ Len(voxel.counts) < ClassCountLimit)
    => /\ enc.status = "ok"
       /\ ~enc.undefined
       /\ Len(enc.indices) = TOP_N
       /\ \A k \in 1 .. TOP_N :
            /\ enc.indices[k] < Len(voxel.counts)
            /\ voxel.counts[enc.indices[k] + 1] = enc.counts[k]
       /\ \A k \in 1 .. (TOP_N - 1) :
            PairLess(<<enc.counts[k + 1], enc.indices[k + 1]>>,
                     <<enc.counts[k], enc.indices[k]>>)
       /\ \A i \in 0 .. (Len(voxel.counts) - 1) :
            (\A k \in 1 .. TOP_N : enc.indices[k] # i)
              => PairLess(<<voxel.counts[i + 1], i>>,
                          <<enc.counts[TOP_N], enc.indices[TOP_N]>>)

\* C2 (block stream consistency): deserializeFromIntegers on the output of
\* serializeToIntegers returns normally (both end-of-loop checks pass), having
\* read num_voxels_ voxels and exactly all the words.
BlockStreamConsistency ==
  pc = "deserialized"
    => /\ dec.status = "ok"
       /\ dec.voxel_idx = num_voxels_
       /\ dec.data_idx = Len(data)

(* the words d[i..] (0-based i) are exactly n ClassVoxel encodings: three
   header words each, and IndexWords + CountWords more when the class count
   is not zero *)
RECURSIVE WellFormed(_, _, _)
WellFormed(d, i, n) ==
  IF n = 0 THEN i = Len(d)
  ELSE /\ i + 3 <= Len(d)
       /\ IF d[i + 1] = <<0, 0>>
            THEN WellFormed(d, i + 3, n - 1)
            ELSE WellFormed(d, i + 3 + IndexWords + CountWords, n - 1)

\* C9 (block integrity check): deserializeFromIntegers returns normally only
\* when it read exactly num_voxels_ voxels and exactly all the words (for
\* ClassVoxel: only when the words are num_voxels_ voxel encodings laid end to
\* end); on any other stream it ends in a failed CHECK or an exception.
BlockIntegrityCheck ==
  (pc = "loaded" /\ dec.status = "ok")
    => /\ dec.voxel_idx = num_voxels_
       /\ dec.data_idx = Len(data)
       /\ variant = "class" => WellFormed(data, 0, num_voxels_)

\* words are left after the last voxel, and the call fails its CHECK
BlockIntegrityCheckWitness ==
  /\ pc = "loaded"
  /\ variant = "class"
  /\ num_voxels_ >= 1
  /\ dec.voxel_idx = num_voxels_
  /\ dec.data_idx < Len(data)
  /\ dec.status = "check"

-----------------------------------------------------------------------------
(* Fusion claims *)

Assignment(v) == <<v.current_index, v.foreign_count, v.belongs_count, v.counts>>

ProbA == classVoxelBelongingProbability(voxel_A, no_votes)
ProbB == classVoxelBelongingProbability(B_before, no_votes)

\* C4 (sticky ground truth): once is_gt is true on the target voxel it is true
\* after every later merge into it, whatever the incoming voxels are.
StickyGroundTruth == gt_seen => voxel_B.is_gt

\* a voxel that is not ground truth was fused into a ground-truth target
StickyGroundTruthWitness ==
  /\ merges >= 2
  /\ B_before.is_gt
  /\ ~voxel_A.is_gt
  /\ Assignment(voxel_A) # Assignment(B_before)
  /\ voxel_B.is_gt

\* C5 (fusion precedence, adoption): after fusing a ground-truth A, B is
\* ground truth and its assignment fields are A's; after fusing an A that is
\* not ground truth and whose belonging probability is strictly greater than
\* B's into a B that is not ground truth, B's assignment fields are A's.
FusionAdoption ==
  merges > 0 =>
    /\ voxel_A.is_gt
         => voxel_B.is_gt /\ Assignment(voxel_B) = Assignment(voxel_A)
    /\ (~voxel_A.is_gt /\ ~B_before.is_gt /\ ProbGreater(ProbA, ProbB))
         => Assignment(voxel_B) = Assignment(voxel_A)

\* a more probable voxel that is not ground truth replaced a different assignment
FusionAdoptionWitness ==
  /\ merges > 0
  /\ ~voxel_A.is_gt
  /\ ~B_before.is_gt
  /\ ProbGreater(ProbA, ProbB)
  /\ B_before.belongs_count + B_before.foreign_count > 0
  /\ Assignment(B_before) # Assignment(voxel_A)
  /\ Assignment(voxel_B) = Assignment(voxel_A)

\* C6 as stated (fusion precedence, no adoption): fusing an A whose belonging
\* probability is lower than or equal to B's leaves B's assignment fields
\* unchanged.
FusionNoAdoptionAsStated ==
  (merges > 0 /\ ProbLessEq(ProbA, ProbB))
    => Assignment(voxel_B) = Assignment(B_before)

\* C6 as amended: fusing an A whose belonging probability is lower than or
\* equal to B's leaves B's assignment fields and is_gt unchanged when A is not
\* ground truth; when A is ground truth B takes A's assignment fields and
\* becomes ground truth.
FusionNoAdoption ==
  (merges > 0 /\ ProbLessEq(ProbA, ProbB))
    => IF voxel_A.is_gt
         THEN voxel_B.is_gt /\ Assignment(voxel_B) = Assignment(voxel_A)
         ELSE /\ Assignment(voxel_B) = Assignment(B_before)
              /\ voxel_B.is_gt = B_before.is_gt

\* an equally probable voxel with another assignment was fused and ignored
FusionNoAdoptionWitness ==
  /\ merges > 0
  /\ ~voxel_A.is_gt
  /\ ~B_before.is_gt
  /\ voxel_A.belongs_count + voxel_A.foreign_count > 0
  /\ ProbLessEq(ProbA, ProbB)
  /\ ~ProbGreater(ProbB, ProbA)
  /\ Assignment(voxel_A) # Assignment(B_before)
  /\ Assignment(voxel_B) = Assignment(B_before)

====
